---- MODULE Spec2Model ----
(***************************************************************************)
(* Model of src/sfnt/pngshim.c: Load_SBit_Png, the loader of PNG-encoded   *)
(* embedded glyph bitmaps, and its pixel conversion (multiply_alpha and    *)
(* the premultiply-and-pack loop).                                         *)
(*                                                                         *)
(* Spec     : sequences of Load_SBit_Png calls on one glyph slot and one   *)
(*            metrics record.  One action is one whole call.               *)
(* SpecPix  : the conversion of one decoded pixel, over every alpha and    *)
(*            every channel value.                                         *)
(*                                                                         *)
(* Integers keep their C width: FT_UShort is taken modulo 2^16, unsigned   *)
(* and FT_UInt modulo 2^32.  The packed colour is stored little-endian     *)
(* (byte 0 = blue), as the union FT_Vec4 lays it out on the builds the     *)
(* file targets.                                                           *)
(*                                                                         *)
(* A memcpy that writes past the end of the destination buffer is          *)
(* undefined behaviour: the call record flags it (overrun), the bytes      *)
(* inside the buffer are written, and the behaviour ends with that call.   *)
(* The results of the allocator and of the decoder are nondeterministic.   *)
(***************************************************************************)
EXTENDS Integers, Sequences, FiniteSets, TLC

VARIABLES metrics, map, call, fixed, ncalls, px

vars == <<metrics, map, call, fixed, ncalls, px>>

(***************************************************************************)
(* Bounds of the model.                                                    *)
(***************************************************************************)
\* largest width/height of the small PNGs and of the caller's metrics
MaxDim == 2
\* largest x_offset / y_offset a caller passes (the smallest is -1)
MaxOff == 1
\* number of calls made on the slot in one behaviour
MaxCalls == 2

(***************************************************************************)
(* Integer widths and bit operations.  The model checker's integers are    *)
(* 32-bit signed, so a 32-bit unsigned value (the packed colour) is held   *)
(* as its four bytes, least significant first; every other quantity of the *)
(* model stays below 2^31.                                                 *)
(***************************************************************************)
IntMax == 2147483647

\* (FT_UShort) n
UShort(n) == n % 65536

\* (FT_UInt) n of an int
UInt(n) == IF n >= 0 THEN n ELSE (n + IntMax) + IntMax + 2

\* (FT_Int) n of an unsigned
ToInt(n) == IF n > IntMax THEN ((n - IntMax) - IntMax) - 2 ELSE n

RECURSIVE BitOr(_, _)
BitOr(a, b) ==
    IF a = 0 THEN b
    ELSE IF b = 0 THEN a
    ELSE (IF a % 2 = 1 \/ b % 2 = 1 THEN 1 ELSE 0) + 2 * BitOr(a \div 2, b \div 2)

\* the unsigned int n < 2^31 as four bytes
Word(n) == [k \in 1 .. 4 |-> (n \div (256 ^ (k - 1))) % 256]

\* w << bits, for a shift by whole bytes; the bytes shifted out are lost
ShlW(w, bits) ==
    LET s == bits \div 8
    IN  [k \in 1 .. 4 |-> IF k - s >= 1 THEN w[k - s] ELSE 0]

\* w1 | w2
OrW(w1, w2) == [k \in 1 .. 4 |-> BitOr(w1[k], w2[k])]

Min(a, b) == IF a < b THEN a ELSE b

SetMax(S) == CHOOSE m \in S : \A o \in S : o <= m

(***************************************************************************)
(* Pixel conversion.                                                       *)
(***************************************************************************)
multiply_alpha_noround(alpha, color) ==
    LET temp == alpha * color + 128
    IN  temp \div 256

multiply_alpha(alpha, color) ==
    LET temp == alpha * color + 128
    IN  (temp + (temp \div 256)) \div 256

PackColorRGBA(blue, green, red, alpha) ==
    OrW(OrW(OrW(Word(red), ShlW(Word(green), 8)), ShlW(Word(blue), 16)),
        ShlW(Word(alpha), 24))

\* (blue) | (green << 8) | (red << 16) | (alpha << 24)
PackColor(blue, green, red, alpha) ==
    OrW(OrW(OrW(Word(blue), ShlW(Word(green), 8)), ShlW(Word(red), 16)),
        ShlW(Word(alpha), 24))

\* the body of the conversion loop for one FT_Vec4 p = [r, g, b, a]
ConvertPixel(p) ==
    LET alpha == p.a
    IN  IF alpha = 0 THEN Word(0)
        ELSE LET red   == IF alpha # 255 THEN multiply_alpha(alpha, p.r) ELSE p.r
                 green == IF alpha # 255 THEN multiply_alpha(alpha, p.g) ELSE p.g
                 blue  == IF alpha # 255 THEN multiply_alpha(alpha, p.b) ELSE p.b
             IN  PackColor(blue, green, red, alpha)

\* byte k of the member `color` of FT_Vec4 in memory
ColorByte(color, k) == color[k + 1]

(***************************************************************************)
(* The collaborators: the PNG decoder and the caller's glyph slot.         *)
(***************************************************************************)
\* decoded straight-alpha pixels the decoder can deliver: translucent red,
\* transparent with colour noise, opaque
SamplePixels ==
    << [r |-> 255, g |-> 0,  b |-> 0,  a |-> 128],
       [r |-> 10,  g |-> 20, b |-> 30, a |-> 0],
       [r |-> 1,   g |-> 2,  b |-> 3,  a |-> 255] >>

\* widths and heights the decoder can report in imgWidth / imgHeight
BigDims == {32768, 65537}

Dims == (1 .. MaxDim) \cup BigDims

\* results of lodepng_decode32: an error, or a width, a height and pixels
DecoderOutcomes ==
    {[err |-> 1, w |-> 0, h |-> 0]}
    \cup {[err |-> 0, w |-> w, h |-> h] : w \in Dims, h \in Dims}

\* pixel idx of the decoded image, in row-major order
RawPixel(dec, idx) == SamplePixels[(idx % Len(SamplePixels)) + 1]

\* byte n of the scratch buffer after the conversion loop has run over it
ScratchByte(dec, n) == ColorByte(ConvertPixel(RawPixel(dec, n \div 4)), n % 4)

Offsets == (-1) .. MaxOff

PixBits == {8, 32}

\* an FT_Bitmap whose buffer holds rows * pitch bytes of a sentinel value
MakeBitmap(w, r, pitch, mode) ==
    [width |-> w, rows |-> r, pitch |-> pitch, pixel_mode |-> mode,
     num_grays |-> 256, buffer |-> [k \in 1 .. (r * pitch) |-> 170]]

\* the slots a caller hands over: never loaded; a bitmap with padded rows
\* that is larger than the glyph; a bitmap of exactly the glyph's size; a
\* gray bitmap
InitSlots ==
    {[metrics |-> [width |-> 0, height |-> 0],
      map |-> MakeBitmap(0, 0, 0, "NONE")]}
    \cup {[metrics |-> [width |-> d, height |-> d],
           map |-> MakeBitmap(MaxDim + 1, MaxDim + 1, (MaxDim + 1) * 4 + 1, "BGRA")] :
              d \in {1, MaxDim}}
    \cup {[metrics |-> [width |-> MaxDim, height |-> MaxDim],
           map |-> MakeBitmap(MaxDim, MaxDim, MaxDim * 4, "BGRA")]}
    \cup {[metrics |-> [width |-> 1, height |-> 1],
           map |-> MakeBitmap(MaxDim, MaxDim, MaxDim, "GRAY")]}

IdlePx == [r |-> 0, g |-> 0, b |-> 0, a |-> 0, out |-> Word(0), done |-> FALSE]

\* the record of a call: its arguments, the slot before it, what it did
NoCall ==
    [x_offset |-> 0, y_offset |-> 0, pix_bits |-> 32,
     populate |-> FALSE, metrics_only |-> FALSE,
     pre_metrics |-> [width |-> 0, height |-> 0],
     pre_map |-> MakeBitmap(0, 0, 0, "NONE"),
     error |-> "Ok", alloc_calls |-> 0, alloc_ok |-> FALSE, free_calls |-> 0,
     decoder_calls |-> 0, decoded |-> FALSE,
     imgWidth |-> 0, imgHeight |-> 0,
     dest_allocs |-> 0, copied |-> FALSE, overrun |-> FALSE,
     pre_fixed |-> FALSE, returned |-> FALSE]

(***************************************************************************)
(* The stages of Load_SBit_Png.                                            *)
(***************************************************************************)
GuardRejectsNoDepth(x_offset, y_offset, pix_bits, populate, m, mp) ==
    \/ x_offset < 0
    \/ y_offset < 0
    \/ /\ ~populate
       /\ \/ UInt(x_offset) + m.width > mp.width
          \/ UInt(y_offset) + m.height > mp.rows
          \/ mp.pixel_mode # "BGRA"

GuardRejects(x_offset, y_offset, pix_bits, populate, m, mp) ==
    \/ x_offset < 0
    \/ y_offset < 0
    \/ /\ ~populate
       /\ \/ UInt(x_offset) + m.width > mp.width
          \/ UInt(y_offset) + m.height > mp.rows
          \/ pix_bits # 32
          \/ mp.pixel_mode # "BGRA"

DimMismatchNarrow(imgWidth, imgHeight, m) ==
    \/ UShort(imgWidth) # m.width
    \/ UShort(imgHeight) # m.height

DimMismatch(imgWidth, imgHeight, m) ==
    \/ ToInt(imgWidth) # m.width
    \/ ToInt(imgHeight) # m.height

ReconcileIgnoringFlag(populate, imgWidth, imgHeight, m, mp) ==
    LET nm   == [width |-> UShort(imgWidth), height |-> UShort(imgHeight)]
        nmap == [mp EXCEPT !.width = nm.width,
                           !.rows = nm.height,
                           !.pixel_mode = "BGRA",
                           !.pitch = ToInt(nm.width * 4),
                           !.num_grays = 256]
    IN  [exit |-> IF nmap.rows > 32767 \/ nmap.width > 32767
                  THEN "too_large" ELSE "continue",
         metrics |-> nm, map |-> nmap]

\* metrics reconciliation: the skip on a mismatch, or the adoption of the
\* decoded dimensions and the size limit
Reconcile(populate, imgWidth, imgHeight, m, mp) ==
    IF ~populate /\ DimMismatch(imgWidth, imgHeight, m)
    THEN [exit |-> "skip", metrics |-> m, map |-> mp]
    ELSE IF populate
    THEN LET nm   == [width |-> UShort(imgWidth), height |-> UShort(imgHeight)]
             nmap == [mp EXCEPT !.width = nm.width,
                                !.rows = nm.height,
                                !.pixel_mode = "BGRA",
                                !.pitch = ToInt(nm.width * 4),
                                !.num_grays = 256]
         IN  [exit |-> IF nmap.rows > 32767 \/ nmap.width > 32767
                       THEN "too_large" ELSE "continue",
              metrics |-> nm, map |-> nmap]
    ELSE [exit |-> "continue", metrics |-> m, map |-> mp]

SkipBlitNever(metrics_only) == FALSE

SkipBlit(metrics_only) == metrics_only

\* ft_glyphslot_alloc_bitmap: the slot's buffer replaced by size fresh bytes,
\* or dropped when the allocation fails
AllocBitmap(mp, size, ok) ==
    IF ok THEN [mp EXCEPT !.buffer = [k \in 1 .. size |-> 0]]
    ELSE [mp EXCEPT !.buffer = << >>]

\* byte offset in the destination of the first byte of row i
RowStartNoScale(pitch, x_offset, y_offset, i) ==
    (y_offset + i) * pitch + x_offset

RowStart(pitch, x_offset, y_offset, i) ==
    LET x_offset_pos == x_offset * 4
    IN  (y_offset + i) * pitch + x_offset_pos

\* the memcpy loop: row i of the scratch buffer, imgWidth * 4 bytes, goes to
\* RowStart(i); a later row overwrites an earlier one.  Only the rows that
\* can start inside the buffer are enumerated.
RowCopy(buffer, pitch, x_offset, y_offset, dec) ==
    LET n    == dec.w * 4
        rows == ToInt(dec.h)
        cand == IF pitch = 0
                THEN {i \in {rows - 1} : i >= 0}
                ELSE 0 .. Min(rows - 1, Len(buffer))
    IN  [k \in 1 .. Len(buffer) |->
            LET off     == k - 1
                writers == {i \in cand :
                               /\ RowStart(pitch, x_offset, y_offset, i) <= off
                               /\ off < RowStart(pitch, x_offset, y_offset, i) + n}
            IN  IF writers = {} THEN buffer[k]
                ELSE LET i == SetMax(writers)
                     IN  ScratchByte(dec,
                             i * n + (off - RowStart(pitch, x_offset, y_offset, i)))]

\* some memcpy of the loop writes past the end of the buffer (row starts
\* do not decrease, so a row that overruns is found among the first ones)
Overruns(buffer, pitch, x_offset, y_offset, dec) ==
    LET n    == dec.w * 4
        rows == ToInt(dec.h)
    IN  /\ n > 0
        /\ \E i \in 0 .. Min(rows - 1, Len(buffer)) :
              RowStart(pitch, x_offset, y_offset, i) + n > Len(buffer)

(***************************************************************************)
(* One call of Load_SBit_Png.                                              *)
(***************************************************************************)
Return(m, mp, c) ==
    /\ metrics' = m
    /\ map' = mp
    /\ call' = [c EXCEPT !.returned = TRUE]
    /\ fixed' = (fixed \/ (c.populate /\ c.error = "Ok"))
    /\ ncalls' = ncalls + 1
    /\ UNCHANGED px

\* from the successful decode to the return
AfterDecode(c0, dec) ==
    LET c1 == [c0 EXCEPT !.decoded = TRUE, !.imgWidth = dec.w,
                         !.imgHeight = dec.h,
                         !.free_calls = 1]
        rc == Reconcile(c0.populate, dec.w, dec.h, metrics, map)
    IN  IF rc.exit = "skip"
        THEN Return(rc.metrics, rc.map, c1)
        ELSE IF rc.exit = "too_large"
        THEN Return(rc.metrics, rc.map, [c1 EXCEPT !.error = "Array_Too_Large"])
        ELSE IF SkipBlit(c0.metrics_only)
        THEN Return(rc.metrics, rc.map, c1)
        ELSE IF c0.populate
        THEN \E dest_ok \in BOOLEAN :
                LET size == rc.map.rows * rc.map.pitch
                    am   == AllocBitmap(rc.map, size, dest_ok)
                IN  IF ~dest_ok
                    THEN Return(rc.metrics, am,
                                [c1 EXCEPT !.dest_allocs = 1,
                                           !.error = "Out_Of_Memory"])
                    ELSE Return(rc.metrics,
                                [am EXCEPT !.buffer =
                                    RowCopy(am.buffer, am.pitch,
                                            c0.x_offset, c0.y_offset, dec)],
                                [c1 EXCEPT !.dest_allocs = 1,
                                           !.copied = TRUE,
                                           !.overrun =
                                    Overruns(am.buffer, am.pitch,
                                             c0.x_offset, c0.y_offset, dec)])
        ELSE Return(rc.metrics,
                    [rc.map EXCEPT !.buffer =
                        RowCopy(rc.map.buffer, rc.map.pitch,
                                c0.x_offset, c0.y_offset, dec)],
                    [c1 EXCEPT !.copied = TRUE,
                               !.overrun =
                        Overruns(rc.map.buffer, rc.map.pitch,
                                 c0.x_offset, c0.y_offset, dec)])

Load_SBit_Png ==
    /\ ncalls < MaxCalls
    /\ ~call.returned
    /\ \E x_offset \in Offsets, y_offset \in Offsets, pix_bits \in PixBits,
          populate \in BOOLEAN, metrics_only \in BOOLEAN :
          LET c0 == [NoCall EXCEPT !.x_offset = x_offset,
                                   !.y_offset = y_offset,
                                   !.pix_bits = pix_bits,
                                   !.populate = populate,
                                   !.metrics_only = metrics_only,
                                   !.pre_metrics = metrics,
                                   !.pre_map = map,
                                   !.pre_fixed = fixed]
          IN  IF GuardRejects(x_offset, y_offset, pix_bits, populate, metrics, map)
              THEN Return(metrics, map, [c0 EXCEPT !.error = "Invalid_Argument"])
              ELSE \E alloc_ok \in BOOLEAN :
                      IF ~alloc_ok
                      THEN Return(metrics, map,
                                  [c0 EXCEPT !.alloc_calls = 1,
                                             !.error = "Out_Of_Memory"])
                      ELSE \E dec \in DecoderOutcomes :
                              LET c1 == [c0 EXCEPT !.alloc_calls = 1,
                                                   !.alloc_ok = TRUE,
                                                   !.decoder_calls = 1]
                              IN  IF dec.err # 0
                                  THEN Return(metrics, map,
                                              [c1 EXCEPT !.error = "Unknown_File_Format"])
                                  ELSE AfterDecode(c1, dec)

Init ==
    /\ \E s \in InitSlots : metrics = s.metrics /\ map = s.map
    /\ call = NoCall
    /\ fixed = FALSE
    /\ ncalls = 0
    /\ px = IdlePx

\* the caller has taken the result and may call again on the same slot.
\* After a write past the end of the destination buffer nothing about the
\* process is defined any more, and the behaviour ends there.
Caller_Continue ==
    /\ call.returned
    /\ ~call.overrun
    /\ call' = NoCall
    /\ UNCHANGED <<metrics, map, fixed, ncalls, px>>

Next == Load_SBit_Png \/ Caller_Continue

Spec == Init /\ [][Next]_vars

(***************************************************************************)
(* The conversion of one decoded pixel, over every alpha and every value   *)
(* of a channel.                                                           *)
(***************************************************************************)
\* largest value of an unsigned char channel of FT_Vec4
MaxChannel == 255

\* every (alpha, channel value) pair occurs in each of red, green and blue
PixelInputs ==
    {[r |-> c, g |-> (c + 128) % (MaxChannel + 1), b |-> MaxChannel - c, a |-> a] :
        c \in 0 .. MaxChannel, a \in 0 .. MaxChannel}
    \cup {SamplePixels[i] : i \in 1 .. Len(SamplePixels)}

InitPix ==
    /\ metrics = [width |-> 0, height |-> 0]
    /\ map = MakeBitmap(0, 0, 0, "NONE")
    /\ call = NoCall
    /\ fixed = FALSE
    /\ ncalls = 0
    /\ \E p \in PixelInputs :
          px = [r |-> p.r, g |-> p.g, b |-> p.b, a |-> p.a,
                out |-> Word(0), done |-> FALSE]

\* one iteration of the inner conversion loop
ConvertStep ==
    /\ ~px.done
    /\ px' = [px EXCEPT !.out = ConvertPixel(px), !.done = TRUE]
    /\ UNCHANGED <<metrics, map, call, fixed, ncalls>>

NextPix == ConvertStep

SpecPix == InitPix /\ [][NextPix]_vars

(***************************************************************************)
(* Properties.                                                             *)
(***************************************************************************)
\* C1: whenever the scratch allocation of a call succeeds, the scratch
\* buffer is freed exactly once before the call returns, on every exit
\* path; a decode failure returns Unknown_File_Format with the allocation
\* and free counts balanced.
C1_ScratchReleasedOnce ==
    (call.returned /\ call.alloc_ok) =>
        /\ call.free_calls = 1
        /\ (~call.decoded => call.error = "Unknown_File_Format")

\* C2: every call that reaches the row copy, in populate and in
\* non-populate mode, copies a rectangle that fits the destination bitmap:
\* x_offset + width <= map width, y_offset + height <= map rows, and no
\* byte is written outside the destination buffer.
C2_RectangleFits ==
    (call.returned /\ call.copied) =>
        /\ call.x_offset + call.imgWidth <= map.width
        /\ call.y_offset + call.imgHeight <= map.rows
        /\ ~call.overrun

\* C3: in populate mode, a decoder-reported width or height above 0x7FFF
\* (also above 0xFFFF) makes the call return Array_Too_Large, with no
\* destination allocation and no pixel copied.
C3_TooLargeRejected ==
    (/\ call.returned /\ call.populate /\ call.decoded
     /\ (call.imgWidth > 32767 \/ call.imgHeight > 32767)) =>
        /\ call.error = "Array_Too_Large"
        /\ call.dest_allocs = 0
        /\ ~call.copied

C4_Case ==
    /\ call.returned /\ ~call.populate /\ call.decoded
    /\ \/ call.imgWidth # call.pre_metrics.width
       \/ call.imgHeight # call.pre_metrics.height

\* C4: in non-populate mode, a successful decode whose width or height
\* differs from the fixed metrics returns success and leaves the
\* destination bytes, the metrics and the bitmap descriptor unchanged.
C4_MismatchSkips ==
    C4_Case =>
        /\ call.error = "Ok"
        /\ metrics = call.pre_metrics
        /\ map = call.pre_map

C4_Witness ==
    /\ C4_Case
    /\ ~call.metrics_only
    /\ Len(call.pre_map.buffer) > 0
    /\ call.imgWidth > 65535

\* C5 as stated: every metrics_only call on a PNG that decodes, whatever
\* the populate flag, returns success, leaves the metrics equal to the
\* decoder-reported size, allocates no destination buffer and writes no
\* destination byte.
C5_MetricsOnlyAsStated ==
    (call.returned /\ call.metrics_only /\ call.decoded) =>
        /\ call.error = "Ok"
        /\ metrics.width = call.imgWidth
        /\ metrics.height = call.imgHeight
        /\ call.dest_allocs = 0
        /\ ~call.copied
        /\ map.buffer = call.pre_map.buffer

\* C5 (amended): every metrics_only call on a PNG that decodes allocates no
\* destination buffer and writes no destination byte; in populate mode with
\* a decoder-reported width and height of at most 0x7FFF it returns success
\* with the metrics equal to the decoder-reported size; in non-populate
\* mode it returns success with the metrics unchanged.
C5_MetricsOnly ==
    (call.returned /\ call.metrics_only /\ call.decoded) =>
        /\ call.dest_allocs = 0
        /\ ~call.copied
        /\ map.buffer = call.pre_map.buffer
        /\ (call.populate /\ call.imgWidth <= 32767 /\ call.imgHeight <= 32767) =>
              /\ call.error = "Ok"
              /\ metrics.width = call.imgWidth
              /\ metrics.height = call.imgHeight
        /\ ~call.populate =>
              /\ call.error = "Ok"
              /\ metrics = call.pre_metrics

C5_Witness ==
    /\ call.returned /\ call.metrics_only /\ call.decoded /\ call.populate
    /\ call.error = "Ok"
    /\ Len(call.pre_map.buffer) > 0
    /\ metrics # call.pre_metrics

C6_MustReject ==
    \/ call.x_offset < 0
    \/ call.y_offset < 0
    \/ /\ ~call.populate
       /\ \/ call.x_offset + call.pre_metrics.width > call.pre_map.width
          \/ call.y_offset + call.pre_metrics.height > call.pre_map.rows
          \/ call.pix_bits # 32
          \/ call.pre_map.pixel_mode # "BGRA"

\* C6: a call returns Invalid_Argument when an offset is negative (any
\* mode) and, in non-populate mode, when the rectangle exceeds the map
\* width or rows, pix_bits is not 32, or the map is not BGRA; it has then
\* made no allocation and no decoder call and changed nothing.  In populate
\* mode with non-negative offsets the guard never rejects.
C6_GuardRejects ==
    call.returned =>
        /\ C6_MustReject =>
              /\ call.error = "Invalid_Argument"
              /\ call.alloc_calls = 0
              /\ call.decoder_calls = 0
              /\ call.dest_allocs = 0
              /\ metrics = call.pre_metrics
              /\ map = call.pre_map
        /\ (call.populate /\ call.x_offset >= 0 /\ call.y_offset >= 0) =>
              call.error # "Invalid_Argument"

C6_Witness ==
    /\ call.returned
    /\ call.error = "Invalid_Argument"
    /\ ~call.populate
    /\ call.x_offset > 0 /\ call.y_offset >= 0
    /\ call.pix_bits = 32
    /\ call.pre_map.pixel_mode = "BGRA"
    /\ call.y_offset + call.pre_metrics.height <= call.pre_map.rows

\* C7 as stated: once a populate-mode call has succeeded, no later call,
\* whatever its flags, changes the metrics width or height.
C7_MetricsFrozenAsStated ==
    (call.returned /\ call.pre_fixed) => metrics = call.pre_metrics

\* C7 (amended): once a populate-mode call has succeeded, no later
\* non-populate call changes the metrics width or height, whatever
\* dimensions the decoder reports.
C7_MetricsFrozen ==
    (call.returned /\ call.pre_fixed /\ ~call.populate) =>
        metrics = call.pre_metrics

C7_Witness ==
    /\ call.returned /\ call.pre_fixed /\ ~call.populate
    /\ call.decoded
    /\ call.imgWidth # call.pre_metrics.width
    /\ call.imgWidth <= MaxDim

\* alpha * channel / 255 rounded to the nearest integer
Nearest255(n) == (2 * n + 255) \div 510

\* (n + 128) / 256 rounded down, and rounded to the nearest integer
Floor256(n) == (n + 128) \div 256

Round256(n) == ((n + 128) + 128) \div 256

\* the bytes blue, green, red, alpha of a pixel whose colour channels are
\* scaled by f
Scaled(f(_), p) == << f(p.a * p.b), f(p.a * p.g), f(p.a * p.r), p.a >>

C8_Expected(f(_), p) ==
    IF p.a = 0 THEN << 0, 0, 0, 0 >>
    ELSE IF p.a = MaxChannel THEN << p.b, p.g, p.r, p.a >>
    ELSE Scaled(f, p)

\* C8 as stated: the packed value is 0 for alpha 0, the unchanged channels
\* for alpha 255, and otherwise each colour channel is
\* round((alpha * channel + 128) / 256), under either reading of the
\* rounding.
C8_PremultiplyAsStated ==
    px.done =>
        \/ px.out = C8_Expected(Floor256, px)
        \/ px.out = C8_Expected(Round256, px)

\* C8 (amended): the packed value is 0 for alpha 0, blue | green<<8 |
\* red<<16 | alpha<<24 with unchanged channels for alpha 255, and otherwise
\* the same packing with each colour channel replaced by
\* alpha * channel / 255 rounded to the nearest integer.
C8_Premultiply ==
    px.done => px.out = C8_Expected(Nearest255, px)

C8_Witness ==
    /\ px.done
    /\ px.a = 254
    /\ px.r = 255
    /\ px.out[3] = 254

C9_Case == px.done /\ px.r = 255 /\ px.g = 0 /\ px.b = 0 /\ px.a = 128

\* C9 as stated: alpha 128, red 255, green 0, blue 0 gives the packed pixel
\* (0xFF<<24) | (0x80<<16).
C9_HalfRedAsStated ==
    C9_Case => px.out = << 0, 0, 128, 255 >>

\* C9 (amended): alpha 128, red 255, green 0, blue 0 gives premultiplied
\* red 128 and the packed pixel (0x80<<24) | (0x80<<16): the top byte is
\* the alpha, 0x80.
C9_HalfRed ==
    C9_Case => px.out = << 0, 0, 128, 128 >>

C9_Witness == C9_Case /\ px.out[3] = 128

\* the buffer of the bitmap holds its rows * pitch bytes and a row holds
\* the width
WellFormed(mp) ==
    /\ mp.pitch >= mp.width * 4
    /\ (mp.pitch > 0 => mp.rows <= Len(mp.buffer))
    /\ Len(mp.buffer) >= mp.rows * mp.pitch

C10_Case ==
    /\ call.returned /\ ~call.populate /\ ~call.metrics_only
    /\ call.error = "Ok"
    /\ call.decoded
    /\ call.imgWidth = call.pre_metrics.width
    /\ call.imgHeight = call.pre_metrics.height
    /\ WellFormed(call.pre_map)

\* offset off lies in the span of a copied row
C10_InSpan(off) ==
    \E r \in 0 .. (call.imgHeight - 1) :
        LET first == (call.y_offset + r) * call.pre_map.pitch + call.x_offset * 4
        IN  first <= off /\ off < first + call.imgWidth * 4

\* C10: in non-populate mode without metrics_only, on a destination bitmap
\* whose buffer holds its rows * pitch bytes, when the guard passes and the decoded size equals
\* the metrics, after the successful return the 4 bytes at
\* (y_offset + r) * pitch + (x_offset + c) * 4 hold the converted pixel
\* (c, r) for every r < height and c < width, and every byte outside those
\* row spans is unchanged.
C10_RowCopy ==
    C10_Case =>
        /\ Len(map.buffer) = Len(call.pre_map.buffer)
        /\ \A r \in 0 .. (call.imgHeight - 1), c \in 0 .. (call.imgWidth - 1),
              k \in 0 .. 3 :
              map.buffer[(call.y_offset + r) * call.pre_map.pitch
                         + (call.x_offset + c) * 4 + k + 1]
                  = ConvertPixel(RawPixel([w |-> call.imgWidth], r * call.imgWidth + c))[k + 1]
        /\ \A off \in 0 .. (Len(map.buffer) - 1) :
              ~C10_InSpan(off) => map.buffer[off + 1] = call.pre_map.buffer[off + 1]

C10_Witness ==
    /\ C10_Case
    /\ call.imgWidth = MaxDim /\ call.imgHeight = MaxDim
    /\ call.x_offset = 1 /\ call.y_offset = 1
    /\ call.pre_map.pitch > call.pre_map.width * 4
    /\ map.buffer # call.pre_map.buffer

====
